---- MODULE Spec2Model ----
(***************************************************************************)
(* CodeGenesis: the project-creation workflow of gui.py (create_project),  *)
(* the git orchestration of git_manager.py (setup_project, setup_branches, *)
(* finalize_project), the boilerplate writer of file_creator.py and the    *)
(* repository provider of github_manager.py.                               *)
(*                                                                         *)
(* Text values (names, paths, URLs) are sequences of characters so that    *)
(* str.strip, the `" " in b` test, shlex.split and os.path.basename are    *)
(* computed, not assumed.  Python's None and the empty string are both the *)
(* empty sequence: the code only ever tests these values for truthiness.   *)
(***************************************************************************)
EXTENDS Integers, Sequences, FiniteSets, TLC

\* ------------------------------------------------------------------ bounds
MaxFeat == 2        \* number of branch entry rows in the form
MaxRounds == 2      \* iterations of the repository-name prompt loop
MaxRequests == 2    \* HTTP requests sent by direct calls of GitHubManager methods
MaxCalls == 2       \* direct calls of GitManager.run_command

\* ------------------------------------------------------------ text helpers
None == <<>>
Whitespace == {" ", "\t"}

Range(s) == {s[i] : i \in 1..Len(s)}

RECURSIVE lstrip(_)
lstrip(s) == IF s # <<>> /\ Head(s) \in Whitespace THEN lstrip(Tail(s)) ELSE s

RECURSIVE rstrip(_)
rstrip(s) == IF s # <<>> /\ s[Len(s)] \in Whitespace
             THEN rstrip(SubSeq(s, 1, Len(s) - 1)) ELSE s

\* str.strip()
strip(s) == rstrip(lstrip(s))

\* shlex.split on one interpolated argument: split at runs of whitespace
\* outside quotes; a quote character opens a quoted stretch that only the same
\* character closes.  When the text ends inside a quoted stretch shlex.split
\* raises ValueError("No closing quotation"): NoClosingQuotation stands for that.
Quotes == {"\"", "'"}
NoClosingQuotation == << <<"ValueError: No closing quotation">> >>

RECURSIVE shlex_split_from(_, _, _, _)
shlex_split_from(s, cur, acc, quote) ==
    IF s = <<>>
    THEN (IF quote # "" THEN NoClosingQuotation
          ELSE IF cur = <<>> THEN acc ELSE Append(acc, cur))
    ELSE IF quote # ""
         THEN (IF Head(s) = quote
               THEN shlex_split_from(Tail(s), cur, acc, "")
               ELSE shlex_split_from(Tail(s), Append(cur, Head(s)), acc, quote))
    ELSE IF Head(s) \in Quotes
         THEN shlex_split_from(Tail(s), cur, acc, Head(s))
    ELSE IF Head(s) \in Whitespace
         THEN shlex_split_from(Tail(s), <<>>, IF cur = <<>> THEN acc ELSE Append(acc, cur), "")
         ELSE shlex_split_from(Tail(s), Append(cur, Head(s)), acc, "")

shlex_split(s) == shlex_split_from(s, <<>>, <<>>, "")

\* os.path.basename: what follows the last "/"
RECURSIVE basename(_)
basename(p) == IF p = <<>> THEN <<>>
               ELSE IF p[Len(p)] = "/" THEN <<>>
               ELSE Append(basename(SubSeq(p, 1, Len(p) - 1)), p[Len(p)])

\* os.path.join(a, b) for a relative b
path_join(a, b) == IF a = <<>> THEN b
                   ELSE IF a[Len(a)] = "/" THEN a \o b
                   ELSE a \o <<"/">> \o b

\* ------------------------------------------------------------ branch names
MAIN == <<"m", "a", "i", "n">>
DEV == <<"d", "e", "v">>
STAGING == <<"s", "t", "a", "g", "i", "n", "g">>
MASTER == <<"m", "a", "s", "t", "e", "r">>

\* ------------------------------------------------------- form input values
RawProjectNames == {<<" ">>, <<" ", "p">>}
RawAuthors == {<<>>, <<"a">>}
RawFolders == {<<>>, <<"/">>, <<"/", "d">>}
LanguageChoices == {<<"Select a language">>, <<"Python">>}
LicenseChoices == {<<"Select a license">>}
RawBranchNames == {<<" ">>, <<"x">>, <<"y", " ">>, <<"x", " ", "y">>, <<"x", "\t", "y">>}
PromptNames == {None, <<" ">>, <<"q">>}      \* answers to simpledialog.askstring

SeqsUpTo(S, n) == UNION {[1..k -> S] : k \in 0..n}

\* ----------------------------------------------------- git (the executable)
\* A commit is [id, msg, tree]; a branch is the sequence of its commits, oldest
\* first; a tree and the working directory are functions file name -> content.
EmptyTree == [f \in {} |-> f]

IsPrefix(s, t) == Len(s) <= Len(t) /\ SubSeq(t, 1, Len(s)) = s

Restrict(f, S) == [x \in (DOMAIN f) \cap S |-> f[x]]

\* the tree of the commit HEAD points at (empty on an unborn branch)
HeadTree(g) == IF g.head \in DOMAIN g.refs /\ g.refs[g.head] # <<>>
               THEN g.refs[g.head][Len(g.refs[g.head])].tree ELSE EmptyTree

TipTree(g, b) == IF g.refs[b] = <<>> THEN EmptyTree ELSE g.refs[b][Len(g.refs[b])].tree

\* files of the working directory git does not track on the current branch
Untracked(g) == Restrict(g.wt, (DOMAIN g.wt) \ (DOMAIN HeadTree(g)))

\* the command objects run_command receives, after shlex.split
Cmd(op, args, opt, msg) == [op |-> op, args |-> args, opt |-> opt, msg |-> msg]

\* switching to tree t keeps untracked files and refuses to overwrite one
SwitchOk(g, t) == \A f \in (DOMAIN Untracked(g)) \cap (DOMAIN t) : Untracked(g)[f] = t[f]
SwitchWt(g, t) == t @@ Untracked(g)

\* exit status 0 of `git ...` in repository state g, apart from failures of
\* the environment (network, credentials, identity, permissions)
GitAccepts(g, c) ==
    CASE c.op = "init" -> TRUE
      [] ~g.init -> FALSE
      [] c.op = "checkout" ->
            /\ Len(c.args) = 1
            /\ c.args[1] \in DOMAIN g.refs
            /\ SwitchOk(g, TipTree(g, c.args[1]))
      [] c.op = "checkout -b" ->
            \/ /\ Len(c.args) = 1
               /\ c.args[1] \notin DOMAIN g.refs
            \/ /\ Len(c.args) = 2
               /\ c.args[1] \notin DOMAIN g.refs
               /\ c.args[2] \in DOMAIN g.refs
               /\ SwitchOk(g, TipTree(g, c.args[2]))
      [] c.op = "commit" -> c.opt = "--allow-empty" \/ g.index # HeadTree(g)
      [] c.op = "remote add" -> Len(c.args) = 1 /\ g.origin = None
      [] c.op = "fetch" -> g.origin # None /\ g.origin \in DOMAIN g.remotes
      [] c.op = "push" ->
            /\ g.origin # None /\ g.origin \in DOMAIN g.remotes
            /\ Len(c.args) >= 1
            /\ \A i \in 1..Len(c.args) :
                  /\ c.args[i] \in DOMAIN g.refs
                  /\ \/ c.opt = "--force"
                     \/ c.args[i] \notin DOMAIN g.remotes[g.origin]
                     \/ IsPrefix(g.remotes[g.origin][c.args[i]], g.refs[c.args[i]])
      [] c.op = "add" -> TRUE
      [] c.op = "merge" ->
            /\ Len(c.args) = 1
            /\ c.args[1] \in DOMAIN g.refs
            /\ g.head \in DOMAIN g.refs
            /\ \/ IsPrefix(g.refs[g.head], g.refs[c.args[1]])
               \/ IsPrefix(g.refs[c.args[1]], g.refs[g.head])
               \/ \A f \in (DOMAIN HeadTree(g)) \cap (DOMAIN TipTree(g, c.args[1])) :
                      HeadTree(g)[f] = TipTree(g, c.args[1])[f]
      [] OTHER -> FALSE

\* what git writes to stderr when it rejects the command
GitStderr(g, c) ==
    CASE c.op # "init" /\ ~g.init -> "fatal: not a git repository"
      [] c.op = "checkout" -> "error: pathspec did not match any file(s) known to git"
      [] c.op = "checkout -b" ->
            IF Len(c.args) >= 1 /\ c.args[1] \in DOMAIN g.refs
            THEN "fatal: a branch named already exists"
            ELSE "fatal: not a commit and a branch cannot be created from it"
      [] c.op = "commit" -> "nothing to commit"
      [] c.op = "remote add" -> "error: remote origin already exists."
      [] c.op \in {"fetch", "push"} ->
            IF g.origin = None THEN "fatal: 'origin' does not appear to be a git repository"
            ELSE "error: failed to push some refs"
      [] c.op = "merge" -> "merge failed"
      [] OTHER -> "error"

\* what git prints on stdout (run_command prints it); only `git init` matters here
GitStdout(g, c) ==
    IF c.op = "init"
    THEN (IF g.init THEN "Reinitialized existing Git repository"
          ELSE "Initialized empty Git repository")
    ELSE ""

NewCommit(g, c, tree) == [id |-> g.nextId, msg |-> c.msg, tree |-> tree]

\* the repository after git has carried the command out
GitEffect(g, c) ==
    CASE c.op = "init" ->
            IF g.init THEN g
            ELSE [g EXCEPT !.init = TRUE, !.head = MASTER, !.index = EmptyTree]
      [] c.op = "checkout" ->
            [g EXCEPT !.head = c.args[1],
                      !.index = TipTree(g, c.args[1]),
                      !.wt = SwitchWt(g, TipTree(g, c.args[1]))]
      [] c.op = "checkout -b" ->
            IF Len(c.args) = 2
            THEN [g EXCEPT !.head = c.args[1],
                           !.refs = (c.args[1] :> g.refs[c.args[2]]) @@ g.refs,
                           !.index = TipTree(g, c.args[2]),
                           !.wt = SwitchWt(g, TipTree(g, c.args[2]))]
            ELSE IF g.head \in DOMAIN g.refs
                 THEN [g EXCEPT !.head = c.args[1],
                                !.refs = (c.args[1] :> g.refs[g.head]) @@ g.refs]
                 ELSE [g EXCEPT !.head = c.args[1]]
      [] c.op = "commit" ->
            [g EXCEPT !.refs = (g.head :> Append(IF g.head \in DOMAIN g.refs
                                                  THEN g.refs[g.head] ELSE <<>>,
                                                  NewCommit(g, c, g.index))) @@ g.refs,
                      !.nextId = g.nextId + 1]
      [] c.op = "remote add" -> [g EXCEPT !.origin = c.args[1]]
      [] c.op = "fetch" -> g
      [] c.op = "push" ->
            [g EXCEPT !.remotes[g.origin] =
                 [b \in Range(c.args) |-> g.refs[b]] @@ g.remotes[g.origin]]
      [] c.op = "add" -> [g EXCEPT !.index = g.wt]
      [] c.op = "merge" ->
            IF IsPrefix(g.refs[c.args[1]], g.refs[g.head]) THEN g
            ELSE IF IsPrefix(g.refs[g.head], g.refs[c.args[1]])
                 THEN [g EXCEPT !.refs[g.head] = g.refs[c.args[1]],
                                !.index = TipTree(g, c.args[1]),
                                !.wt = SwitchWt(g, TipTree(g, c.args[1]))]
                 ELSE [g EXCEPT !.refs[g.head] =
                           Append(g.refs[g.head],
                                  NewCommit(g, c, TipTree(g, c.args[1]) @@ HeadTree(g))),
                                !.index = TipTree(g, c.args[1]) @@ HeadTree(g),
                                !.wt = SwitchWt(g, TipTree(g, c.args[1]) @@ HeadTree(g)),
                                !.nextId = g.nextId + 1]
      [] OTHER -> g

\* ------------------------------------------------------------- git_manager
\* a logger.error line: its fixed text and the value interpolated into it
Err(text, arg) == [text |-> text, arg |-> arg]

Step(cmd, errs) == [cmd |-> cmd, errs |-> errs]

\* GitManager.initialize_repo / set_remote / fetch_remote / add_files
initialize_repo == Cmd("init", <<>>, "", "")
set_remote(url) == Cmd("remote add", shlex_split(url), "", "")
fetch_remote == Cmd("fetch", <<>>, "", "")
add_files == Cmd("add", <<>>, "", "")

checkout(branch) == Cmd("checkout", shlex_split(branch), "", "")
checkout_b(branch) == Cmd("checkout -b", shlex_split(branch), "", "")
merge(branch) == Cmd("merge", shlex_split(branch), "", "")

\* GitManager.commit_changes
commit_changes(message, allow_empty) ==
    Cmd("commit", <<>>, IF allow_empty THEN "--allow-empty" ELSE "", message)

\* GitManager.push_branch
push_branch(branch_name, force) ==
    Cmd("push", shlex_split(branch_name), IF force THEN "--force" ELSE "", "")

\* feature_creation that does not go back to dev before each new branch
RECURSIVE feature_creation_without_returning(_, _)
feature_creation_without_returning(dev_branch, feature_branches) ==
    IF feature_branches = <<>> THEN <<>>
    ELSE << Step(checkout_b(Head(feature_branches)), <<>>) >>
         \o feature_creation_without_returning(dev_branch, Tail(feature_branches))

RECURSIVE feature_creation(_, _)
feature_creation(dev_branch, feature_branches) ==
    IF feature_branches = <<>> THEN <<>>
    ELSE << Step(checkout(dev_branch), <<>>),
            Step(checkout_b(Head(feature_branches)), <<>>) >>
         \o feature_creation(dev_branch, Tail(feature_branches))

\* setup_branches without the empty commit on staging
setup_branches_without_staging_commit(main_branch, dev_branch, staging_branch, feature_branches) ==
    << Step(checkout(main_branch), <<>>),
       Step(checkout_b(dev_branch), <<>>),
       Step(checkout(main_branch), <<>>),
       Step(checkout_b(staging_branch), <<>>),
       Step(push_branch(staging_branch, FALSE), <<Err("Failed to push to remote", staging_branch)>>) >>
    \o feature_creation(dev_branch, feature_branches)
    \o << Step(checkout(dev_branch), <<>>) >>

\* GitManager.setup_branches: the commands it issues, in order, each with the
\* lines it logs when that command fails; the first failure returns False
setup_branches(main_branch, dev_branch, staging_branch, feature_branches) ==
    << Step(checkout(main_branch), <<>>),
       Step(checkout_b(dev_branch), <<>>),
       Step(checkout(main_branch), <<>>),
       Step(checkout_b(staging_branch), <<>>),
       Step(commit_changes("Initial empty commit on staging", TRUE),
            <<Err("Failed to create empty commit on staging", None)>>),
       Step(push_branch(staging_branch, FALSE), <<Err("Failed to push to remote", staging_branch)>>) >>
    \o feature_creation(dev_branch, feature_branches)
    \o << Step(checkout(dev_branch), <<>>) >>

AppendErr(steps, e) == [i \in 1..Len(steps) |-> Step(steps[i].cmd, Append(steps[i].errs, e))]

\* setup_project with the plausible slip of switching to main instead of creating it
setup_project_switching_to_main(repo_url, main_branch, dev_branch, staging_branch, feature_branches) ==
    << Step(initialize_repo, <<Err("Git initialization failed", None)>>),
       Step(checkout(main_branch), <<Err("Failed to create main branch", None)>>),
       Step(commit_changes("Initial empty commit", TRUE),
            <<Err("Failed to create empty commit on main", None)>>) >>
    \o (IF repo_url # None
        THEN << Step(set_remote(repo_url), <<Err("Failed to set remote", None)>>),
                Step(push_branch(main_branch, TRUE), <<Err("Failed to push to remote", main_branch)>>),
                Step(fetch_remote, <<Err("Failed to fetch from remote", None)>>) >>
        ELSE <<>>)
    \o AppendErr(setup_branches(main_branch, dev_branch, staging_branch, feature_branches),
                 Err("Git branch setup failed", None))

\* GitManager.setup_project
setup_project(repo_url, main_branch, dev_branch, staging_branch, feature_branches) ==
    << Step(initialize_repo, <<Err("Git initialization failed", None)>>),
       Step(checkout_b(main_branch), <<Err("Failed to create main branch", None)>>),
       Step(commit_changes("Initial empty commit", TRUE),
            <<Err("Failed to create empty commit on main", None)>>) >>
    \o (IF repo_url # None
        THEN << Step(set_remote(repo_url), <<Err("Failed to set remote", None)>>),
                Step(push_branch(main_branch, TRUE), <<Err("Failed to push to remote", main_branch)>>),
                Step(fetch_remote, <<Err("Failed to fetch from remote", None)>>) >>
        ELSE <<>>)
    \o AppendErr(setup_branches(main_branch, dev_branch, staging_branch, feature_branches),
                 Err("Git branch setup failed", None))

\* feature_propagation pushing each feature branch before merging dev into it
RECURSIVE feature_propagation_pushing_first(_, _)
feature_propagation_pushing_first(dev_branch, feature_branches) ==
    IF feature_branches = <<>> THEN <<>>
    ELSE << Step(checkout(Head(feature_branches)), <<Err("Failed to checkout", Head(feature_branches))>>),
            Step(push_branch(Head(feature_branches), FALSE),
                 <<Err("Failed to push to remote", Head(feature_branches))>>),
            Step(merge(dev_branch), <<Err("Failed to merge into", Head(feature_branches))>>) >>
         \o feature_propagation_pushing_first(dev_branch, Tail(feature_branches))

\* feature_propagation whose error lines name dev instead of the feature branch
RECURSIVE feature_propagation_naming_dev(_, _)
feature_propagation_naming_dev(dev_branch, feature_branches) ==
    IF feature_branches = <<>> THEN <<>>
    ELSE << Step(checkout(Head(feature_branches)), <<Err("Failed to checkout", dev_branch)>>),
            Step(merge(dev_branch), <<Err("Failed to merge into", dev_branch)>>),
            Step(push_branch(Head(feature_branches), FALSE),
                 <<Err("Failed to push to remote", dev_branch)>>) >>
         \o feature_propagation_naming_dev(dev_branch, Tail(feature_branches))

\* feature_propagation going back to dev after each feature branch
RECURSIVE feature_propagation_returning_to_dev(_, _)
feature_propagation_returning_to_dev(dev_branch, feature_branches) ==
    IF feature_branches = <<>> THEN <<>>
    ELSE << Step(checkout(Head(feature_branches)), <<Err("Failed to checkout", Head(feature_branches))>>),
            Step(merge(dev_branch), <<Err("Failed to merge into", Head(feature_branches))>>),
            Step(push_branch(Head(feature_branches), FALSE),
                 <<Err("Failed to push to remote", Head(feature_branches))>>),
            Step(checkout(dev_branch), <<Err("Failed to return to", dev_branch)>>) >>
         \o feature_propagation_returning_to_dev(dev_branch, Tail(feature_branches))

RECURSIVE feature_propagation(_, _)
feature_propagation(dev_branch, feature_branches) ==
    IF feature_branches = <<>> THEN <<>>
    ELSE << Step(checkout(Head(feature_branches)), <<Err("Failed to checkout", Head(feature_branches))>>),
            Step(merge(dev_branch), <<Err("Failed to merge into", Head(feature_branches))>>),
            Step(push_branch(Head(feature_branches), FALSE),
                 <<Err("Failed to push to remote", Head(feature_branches))>>) >>
         \o feature_propagation(dev_branch, Tail(feature_branches))

\* GitManager.finalize_project
finalize_project(repo_url, dev_branch, feature_branches) ==
    << Step(add_files, <<Err("Failed to add files", None)>>),
       Step(commit_changes("Initial project setup on dev", FALSE),
            <<Err("Failed to commit files on dev", None)>>) >>
    \o (IF repo_url # None
        THEN << Step(push_branch(dev_branch, FALSE), <<Err("Failed to push to remote", dev_branch)>>) >>
        ELSE <<>>)
    \o (IF repo_url # None
        THEN feature_propagation(dev_branch, feature_branches)
             \o << Step(checkout(dev_branch), <<Err("Failed to return to", dev_branch)>>) >>
        ELSE <<>>)

\* stderr of a command the environment made fail (network, identity, permissions)
EnvStderr == "fatal: unable to access"

\* GitManager.run_command.  shlex.split comes first and its ValueError is not
\* caught; otherwise one process is run and the call returns True iff the
\* process exits with status 0 (check=True raising CalledProcessError, caught,
\* for any other status).  env_ok is whether the environment lets this
\* invocation through.  `ran` lists the processes the call started.
run_command(g, c, env_ok) ==
    IF c.args = NoClosingQuotation
    THEN [raises |-> "ValueError", ok |-> FALSE, ran |-> <<>>, world |-> g]
    ELSE LET returncode == IF env_ok /\ GitAccepts(g, c) THEN 0 ELSE 1
         IN [raises |-> "",
             ok |-> returncode = 0,
             ran |-> <<[returncode |-> returncode,
                        stdout |-> IF returncode = 0 THEN GitStdout(g, c) ELSE "",
                        stderr |-> IF returncode = 0 THEN ""
                                   ELSE IF GitAccepts(g, c) THEN EnvStderr
                                   ELSE GitStderr(g, c)]>>,
             world |-> IF returncode = 0 THEN GitEffect(g, c) ELSE g]

\* ---------------------------------------------------------- github_manager
GITHUB == <<"https://github.com/u/">>
RepoUrl(repo_name) == GITHUB \o repo_name \o <<".git">>
OtherUrl == <<"https://example.org/old.git">>

\* what GitHub puts on the default branch of a repository created with auto_init
AutoInitCommit == [id |-> 0, msg |-> "Initial commit",
                   tree |-> ("README.md" :> <<"auto_init">>) @@ ("LICENSE" :> <<"auto_init">>)]
PreCommit == [id |-> 0, msg |-> "earlier work", tree |-> EmptyTree]

\* an existing project's own history: one commit tracking one source file
WorkTree == ("app.py" :> <<"old">>)
WorkCommit == [id |-> 0, msg |-> "earlier work", tree |-> WorkTree]

Request(method, op, name) == [method |-> method, op |-> op, name |-> name]

\* the Python values the methods return, tagged with their type
PyNone == [type |-> "NoneType", v |-> <<>>]
PyList(items) == [type |-> "list", v |-> items]
PyStr(s) == [type |-> "str", v |-> s]
PyBool(b) == [type |-> "bool", v |-> IF b THEN <<"True">> ELSE <<"False">>]

\* bool(x), as `if x:` tests it
Truthy(x) == x.v # <<>> /\ x # PyBool(FALSE)

\* GitHubManager.__init__ deriving is_available from the token alone
GitHubManager_token_only(tok, user) ==
    [token |-> tok, username |-> user, is_available |-> tok # None]

\* GitHubManager.__init__: the credentials read from the environment and the
\* is_available flag derived from them
GitHubManager(tok, user) ==
    [token |-> tok, username |-> user, is_available |-> tok # None /\ user # None]

\* how a method call ends: the value returned or the exception raised, the
\* HTTP requests it sent, and the provider's state afterwards
Returns(ret, sent, g) == [ret |-> ret, raises |-> "", sent |-> sent, world |-> g]
Raises(exc, sent, g) == [ret |-> PyNone, raises |-> exc, sent |-> sent, world |-> g]

\* the template names the provider lists
LanguageTemplates == <<"Python">>
LicenseTemplates == <<"mit">>

\* GitHubManager.get_language_templates; net_ok: the request succeeds
get_language_templates(self, g, net_ok) ==
    IF ~self.is_available THEN Returns(PyList(<<>>), <<>>, g)
    ELSE Returns(IF net_ok THEN PyList(LanguageTemplates) ELSE PyList(<<>>),
                 <<Request("GET", "get_language_templates", None)>>, g)

\* GitHubManager.get_license_templates
get_license_templates(self, g, net_ok) ==
    IF ~self.is_available THEN Returns(PyList(<<>>), <<>>, g)
    ELSE Returns(IF net_ok THEN PyList(LicenseTemplates) ELSE PyList(<<>>),
                 <<Request("GET", "get_license_templates", None)>>, g)

\* GitHubManager.get_license_content
get_license_content(self, g, license_key, net_ok) ==
    IF ~self.is_available THEN Returns(PyNone, <<>>, g)
    ELSE Returns(IF net_ok THEN PyStr(<<"license body">> \o license_key) ELSE PyNone,
                 <<Request("GET", "get_license_content", license_key)>>, g)

\* GitHubManager.get_gitignore_template
get_gitignore_template(self, g, language, net_ok) ==
    IF ~self.is_available THEN Returns(PyNone, <<>>, g)
    ELSE Returns(IF net_ok THEN PyStr(<<"template">>) ELSE PyNone,
                 <<Request("GET", "get_gitignore_template", language)>>, g)

\* check_repository_exists answering True whatever the provider says
check_repository_exists_always_true(self, g, repo_name, net_ok) ==
    IF ~self.is_available THEN Returns(PyBool(FALSE), <<>>, g)
    ELSE Returns(PyBool(TRUE), <<Request("GET", "check_repository_exists", repo_name)>>, g)

\* check_repository_exists answering without asking the provider
check_repository_exists_unasked(self, g, repo_name, net_ok) ==
    Returns(PyBool(self.is_available /\ net_ok /\ RepoUrl(repo_name) \in DOMAIN g.remotes), <<>>, g)

\* GitHubManager.check_repository_exists: True on status 200
check_repository_exists(self, g, repo_name, net_ok) ==
    IF ~self.is_available THEN Returns(PyBool(FALSE), <<>>, g)
    ELSE Returns(PyBool(net_ok /\ RepoUrl(repo_name) \in DOMAIN g.remotes),
                 <<Request("GET", "check_repository_exists", repo_name)>>, g)

\* GitHubManager.delete_repository: the provider drops the repository, or
\* answers with an error status (caught, False)
delete_repository(self, g, repo_name, net_ok) ==
    IF ~self.is_available THEN Returns(PyBool(FALSE), <<>>, g)
    ELSE IF net_ok /\ RepoUrl(repo_name) \in DOMAIN g.remotes
    THEN Returns(PyBool(TRUE), <<Request("DELETE", "delete_repository", repo_name)>>,
                 [g EXCEPT !.remotes = Restrict(g.remotes,
                                                (DOMAIN g.remotes) \ {RepoUrl(repo_name)})])
    ELSE Returns(PyBool(FALSE), <<Request("DELETE", "delete_repository", repo_name)>>, g)

\* how the POST of create_repository can end: "url" (201), "none" (an HTTP
\* error status) or "raise" (the request itself failed: timeout, no connection)
create_repository_outcomes(g, repo_name) ==
    (IF RepoUrl(repo_name) \in DOMAIN g.remotes THEN {} ELSE {"url"}) \cup {"none", "raise"}

\* GitHubManager.create_repository.  When the request itself failed, the
\* handler reads `response`, which was never bound: UnboundLocalError escapes.
create_repository(self, g, repo_name, outcome) ==
    IF ~self.is_available THEN Returns(PyNone, <<>>, g)
    ELSE IF outcome = "url"
    THEN Returns(PyStr(RepoUrl(repo_name)), <<Request("POST", "create_repository", repo_name)>>,
                 [g EXCEPT !.remotes = (RepoUrl(repo_name) :> (MAIN :> <<AutoInitCommit>>))
                                       @@ g.remotes])
    ELSE IF outcome = "none"
    THEN Returns(PyNone, <<Request("POST", "create_repository", repo_name)>>, g)
    ELSE Raises("UnboundLocalError", <<Request("POST", "create_repository", repo_name)>>, g)

\* ------------------------------------------------------------- gui_manager
\* GuiManager.get_additional_branches
get_additional_branches(entries) ==
    SelectSeq([i \in 1..Len(entries) |-> strip(entries[i])], LAMBDA b : b # <<>>)

\* GuiManager.get_selected_language / get_selected_license
get_selected_language(form) ==
    IF form.selected_language # <<"Select a language">> THEN form.selected_language ELSE None
get_selected_license(form) ==
    IF form.selected_license # <<"Select a license">> THEN form.selected_license ELSE None

\* --------------------------------------------------------------------- gui
Msg(kind, text, detail, pushed, local_only) ==
    [kind |-> kind, text |-> text, detail |-> detail, pushed |-> pushed, local_only |-> local_only]

NoInput == [project_name |-> None, author |-> None, destination_folder |-> None,
            selected_lang |-> None, selected_license |-> None, additional_branches |-> None,
            error |-> ""]

\* the branch-name check of validate_input
branch_names_rejected(additional_branches) ==
    \E i \in 1..Len(additional_branches) : " " \in Range(additional_branches[i])

\* ProjectCreatorApp.validate_input; `error` is the text of the error box shown
validate_input(form) ==
    LET project_name == strip(form.project_name)
        author == strip(form.author)
        destination_folder == strip(form.destination_folder)
        selected_lang == get_selected_language(form)
        selected_license == IF get_selected_license(form) # None
                            THEN get_selected_license(form) ELSE <<"mit">>
        additional_branches == get_additional_branches(form.additional_branches)
    IN IF project_name = <<>> \/ author = <<>> \/ destination_folder = <<>> \/ selected_lang = <<>>
       THEN [NoInput EXCEPT !.error = "All fields (name, author, folder, language) are required!"]
       ELSE IF branch_names_rejected(additional_branches)
       THEN [NoInput EXCEPT !.error = "Branch names cannot contain spaces!"]
       ELSE [project_name |-> project_name, author |-> author,
             destination_folder |-> destination_folder, selected_lang |-> selected_lang,
             selected_license |-> selected_license,
             additional_branches |-> additional_branches, error |-> ""]

\* the directory create_project works in
project_path_of(form, v) ==
    IF form.is_new_project THEN path_join(v.destination_folder, v.project_name)
    ELSE v.destination_folder

\* ------------------------------------------------------------ file_creator
\* create_gitignore without the os.path.exists test: it always writes
create_gitignore_overwriting(wt, languages, gitignore_content) ==
    (".gitignore" :>
        (<<"# Auto-generated .gitignore">>
         \o (IF Truthy(gitignore_content)
             THEN <<"# ">> \o languages \o <<" specific ignore">> \o gitignore_content.v
             ELSE <<"# ">> \o languages \o <<" (template not found)">>))) @@ wt

\* FileCreator.create_gitignore for the one-language list create_project passes;
\* gitignore_content is what self.github.get_gitignore_template returned
create_gitignore(wt, languages, gitignore_content) ==
    IF ".gitignore" \notin DOMAIN wt
    THEN (".gitignore" :>
            (<<"# Auto-generated .gitignore">>
             \o (IF Truthy(gitignore_content)
                 THEN <<"# ">> \o languages \o <<" specific ignore">> \o gitignore_content.v
                 ELSE <<"# ">> \o languages \o <<" (template not found)">>))) @@ wt
    ELSE wt

\* FileCreator.create_license; license_content is what get_license_content returned
create_license(wt, license_key, author, license_content) ==
    IF "LICENSE" \notin DOMAIN wt
    THEN ("LICENSE" :>
            (IF Truthy(license_content)
             THEN license_content.v \o <<"2025">> \o author
             ELSE <<"MIT License", "Copyright (c) 2025">> \o author)) @@ wt
    ELSE wt

\* create_readme that writes nothing
create_readme_not_writing(wt, project_name, author) == wt

\* FileCreator.create_readme
create_readme(wt, project_name, author) ==
    IF "README.md" \notin DOMAIN wt
    THEN ("README.md" :> (<<"# ">> \o project_name \o <<"Created by">> \o author)) @@ wt
    ELSE wt

Boilerplate == {".gitignore", "LICENSE", "README.md"}

\* ------------------------------------------------------------------- state
VARIABLES
    form,          \* the Tk variables of the form
    token,         \* GitHubManager.token (GITHUB_PAT)
    username,      \* GitHubManager.username (GITHUB_USERNAME)
    is_available,  \* GitHubManager.is_available
    world,         \* the project directory, its git repository and the remotes
    pc,            \* where create_project is
    k,             \* index of the next command of the running git phase
    loc,           \* local variables of create_project
    rounds,        \* iterations of the repository-name loop begun so far
    requests,      \* HTTP requests sent to the provider, in order
    messages,      \* message boxes shown, in order
    log,           \* logger.error lines, in order
    cmds,          \* processes run by run_command, in order, with their results
    result,        \* what setup_project and finalize_project returned ("" = not yet)
    raised,        \* the exception that escaped ("" = none)
    returned       \* the last GitHubManager method called directly, and what it returned

vars == <<form, token, username, is_available, world, pc, k, loc, rounds, requests, messages,
         log, cmds, result, raised, returned>>

\* self.github of ProjectCreatorApp (FileCreator builds its own from the same environment)
github == [token |-> token, username |-> username, is_available |-> is_available]

\* no GitHubManager method has been called directly
NotCalled == [op |-> "", ret |-> PyNone]

\* ----------------------------------------------------------- initial state
\* the environment either sets GITHUB_PAT / GITHUB_USERNAME or does not
Tokens == {None, <<"t">>}
Usernames == {None, <<"u">>}

\* the branch rows of the form: at most one row is blank or holds whitespace
\* inside the name
Irregular(row) == strip(row) = <<>> \/ Range(strip(row)) \cap Whitespace # {}
BranchRows ==
    { rows \in SeqsUpTo(RawBranchNames, MaxFeat) :
        Cardinality({i \in 1..Len(rows) : Irregular(rows[i])}) <= 1 }

\* the forms the user can submit: every way of filling the fields in which at
\* most one required field is left blank
Blank(f) == {x \in {"project_name", "author", "destination_folder"} : strip(f[x]) = <<>>}
Forms == { f \in [project_name : RawProjectNames, author : RawAuthors,
                  destination_folder : RawFolders, selected_language : LanguageChoices,
                  selected_license : LicenseChoices,
                  additional_branches : BranchRows,
                  use_github : BOOLEAN, is_new_project : BOOLEAN] :
             Cardinality(Blank(f)) + (IF f.selected_language = <<"Select a language">>
                                      THEN 1 ELSE 0) <= 1 }

\* repositories the account already holds, among the names the run can ask for
GithubAccounts == {{}, {<<"p">>}, {<<"p">>, <<"d">>}}

GithubHolding(names) == [u \in {RepoUrl(n) : n \in names} |-> (MAIN :> <<AutoInitCommit>>)]

NoDirectory(remotes) ==
    [exists |-> FALSE, init |-> FALSE, head |-> None, refs |-> EmptyTree, index |-> EmptyTree,
     origin |-> None, wt |-> EmptyTree, remotes |-> remotes, nextId |-> 1]

\* what can be at the project path before the run: nothing; an empty
\* directory; one holding a README; a repository an earlier run left with
\* main; a repository on master bound to some other origin; an existing
\* project with its own history on master and no origin
Directories(remotes) ==
    { NoDirectory(remotes),
      [NoDirectory(remotes) EXCEPT !.exists = TRUE],
      [NoDirectory(remotes) EXCEPT !.exists = TRUE, !.wt = ("README.md" :> <<"old">>)],
      [NoDirectory(remotes) EXCEPT !.exists = TRUE, !.init = TRUE, !.head = MAIN,
            !.refs = (MAIN :> <<[PreCommit EXCEPT !.msg = "Initial empty commit"]>>)],
      [NoDirectory(remotes) EXCEPT !.exists = TRUE, !.init = TRUE, !.head = MASTER,
            !.refs = (MASTER :> <<PreCommit>>), !.origin = OtherUrl,
            !.remotes = (OtherUrl :> (MASTER :> <<PreCommit>>)) @@ remotes],
      [NoDirectory(remotes) EXCEPT !.exists = TRUE, !.init = TRUE, !.head = MASTER,
            !.refs = (MASTER :> <<WorkCommit>>), !.index = WorkTree, !.wt = WorkTree] }

\* the project path as each mode of the form meets it: the subfolder of a new
\* project is missing, empty, holds a README, or is what an earlier run left;
\* the folder of an existing project is missing or holds a repository on master
ProjectDirectories(is_new_project, remotes) ==
    { d \in Directories(remotes) :
        ~d.exists \/ (is_new_project <=> (~d.init \/ d.head = MAIN)) }

\* the locals of create_project; overwrite is "" until the overwrite prompt has
\* been answered, then "True" or "False"
NoLocals == [project_name |-> None, author |-> None, destination_folder |-> None,
             selected_lang |-> None, selected_license |-> None, additional_branches |-> <<>>,
             local_name |-> None, project_path |-> None, final_name |-> None,
             repo_name |-> None, repo_url |-> None, overwrite |-> ""]

\* Without credentials get_language_templates() returned [] at start-up, so
\* the read-only language box offers nothing to select.
Init ==
    /\ form \in Forms
    /\ token \in Tokens
    /\ username \in Usernames
    /\ is_available = GitHubManager(token, username).is_available
    /\ is_available \/ form.selected_language = <<"Select a language">>
    /\ \E names \in (IF form.use_github /\ is_available THEN GithubAccounts ELSE {{}}) :
          world \in ProjectDirectories(form.is_new_project, GithubHolding(names))
    /\ pc = "start"
    /\ k = 1
    /\ loc = NoLocals
    /\ rounds = 0
    /\ requests = <<>>
    /\ messages = <<>>
    /\ log = <<>>
    /\ cmds = <<>>
    /\ result = [setup |-> "", finalize |-> ""]
    /\ raised = ""
    /\ returned = NotCalled

\* ------------------------------------------------- create_project, by step
ShowError(text, detail) == Append(messages, Msg("showerror", text, detail, <<>>, <<>>))

\* lines 82-85: the locals once the directory is settled, and where to go next
Enter(v) ==
    /\ loc' = [NoLocals EXCEPT
                 !.project_name = v.project_name, !.author = v.author,
                 !.destination_folder = v.destination_folder,
                 !.selected_lang = v.selected_lang, !.selected_license = v.selected_license,
                 !.additional_branches = v.additional_branches,
                 !.local_name = basename(v.destination_folder),
                 !.project_path = project_path_of(form, v),
                 !.final_name = v.project_name,
                 !.repo_name = IF form.use_github /\ is_available THEN v.project_name ELSE None,
                 !.repo_url = None]
    /\ pc' = IF form.use_github /\ is_available THEN "negotiate" ELSE "setup"
    /\ messages' = messages

Leave(text, detail) ==
    /\ messages' = ShowError(text, detail)
    /\ pc' = "done"
    /\ loc' = loc

\* create_project lines 57-85: validation and the project directory
Validate ==
    /\ pc = "start"
    /\ LET v == validate_input(form)
       IN IF v.project_name = None
          THEN Leave(v.error, <<>>) /\ world' = world
          ELSE IF form.is_new_project
               THEN IF ~world.exists
                    THEN \E made \in BOOLEAN :
                           IF made
                           THEN Enter(v) /\ world' = [world EXCEPT !.exists = TRUE]
                           ELSE /\ Leave("Failed to create directory", project_path_of(form, v))
                                /\ world' = world
                    ELSE Enter(v) /\ world' = world
               ELSE IF ~world.exists
                    THEN /\ Leave("Directory does not exist for existing project!",
                                  project_path_of(form, v))
                         /\ world' = world
                    ELSE Enter(v) /\ world' = world
    /\ UNCHANGED <<form, token, username, is_available, returned, k, rounds, requests, log, cmds, result, raised>>

\* create_project lines 87-110: one iteration of the repository-name loop
Negotiate ==
    /\ pc = "negotiate"
    /\ \E response \in BOOLEAN, net_ok \in BOOLEAN, overwrite \in BOOLEAN,
          new_name \in PromptNames, del_ok \in BOOLEAN :
         LET repo_name == IF response THEN loc.repo_name ELSE loc.local_name
             exists == check_repository_exists(github, world, repo_name, net_ok)
             deleted == delete_repository(github, world, repo_name, del_ok)
         IN IF Truthy(exists.ret)
            THEN IF overwrite
                 THEN /\ world' = deleted.world
                      /\ requests' = requests \o exists.sent \o deleted.sent
                      /\ loc' = [loc EXCEPT !.repo_name = repo_name, !.overwrite = "True"]
                      /\ pc' = "create_repo"
                      /\ UNCHANGED <<messages, rounds>>
                 ELSE IF new_name = None \/ strip(new_name) = <<>>
                      THEN /\ messages' = Append(messages, Msg("showwarning", "GitHub setup skipped",
                                                              <<>>, <<>>, <<>>))
                           /\ loc' = [loc EXCEPT !.repo_name = repo_name,
                                                 !.final_name = loc.local_name,
                                                 !.overwrite = "False"]
                           /\ requests' = requests \o exists.sent
                           /\ pc' = "create_repo"
                           /\ UNCHANGED <<world, rounds>>
                      ELSE /\ rounds + 1 < MaxRounds
                           /\ loc' = [loc EXCEPT !.repo_name = strip(new_name),
                                                 !.overwrite = "False"]
                           /\ requests' = requests \o exists.sent
                           /\ rounds' = rounds + 1
                           /\ UNCHANGED <<world, messages, pc>>
            ELSE /\ loc' = [loc EXCEPT !.repo_name = repo_name]
                 /\ requests' = requests \o exists.sent
                 /\ pc' = "create_repo"
                 /\ UNCHANGED <<world, messages, rounds>>
    /\ UNCHANGED <<form, token, username, is_available, returned, k, log, cmds, result, raised>>

\* create_project lines 111-114
CreateRepository ==
    /\ pc = "create_repo"
    /\ IF loc.repo_name # <<>>
       THEN \E outcome \in create_repository_outcomes(world, loc.repo_name) :
              LET created == create_repository(github, world, loc.repo_name, outcome)
              IN
              /\ requests' = requests \o created.sent
              /\ world' = created.world
              /\ IF created.raises # ""
                 THEN raised' = created.raises /\ pc' = "done" /\ loc' = loc
                 ELSE /\ loc' = [loc EXCEPT !.repo_url = IF Truthy(created.ret)
                                                          THEN created.ret.v ELSE None,
                                            !.final_name = loc.repo_name]
                      /\ pc' = "setup"
                      /\ raised' = raised
       ELSE pc' = "setup" /\ UNCHANGED <<requests, world, loc, raised>>
    /\ UNCHANGED <<form, token, username, is_available, returned, k, rounds, messages, log, cmds, result>>

\* the entries a run_command call adds to the record of processes
Ran(phase, c, r) ==
    [i \in 1..Len(r.ran) |-> [phase |-> phase, cmd |-> c, ok |-> r.ok,
                              returncode |-> r.ran[i].returncode,
                              stdout |-> r.ran[i].stdout, stderr |-> r.ran[i].stderr]]

\* RunStep with the `return` after the error box missing: a failed phase falls through
RunStep_falling_through(phase, steps, next, text) ==
    \E env_ok \in BOOLEAN :
      LET st == steps[k]
          r == run_command(world, st.cmd, env_ok)
      IN /\ world' = r.world
         /\ cmds' = cmds \o Ran(phase, st.cmd, r)
         /\ IF r.raises # ""
            THEN /\ raised' = r.raises
                 /\ pc' = "done"
                 /\ UNCHANGED <<k, result, log, messages>>
            ELSE IF r.ok
            THEN /\ IF k = Len(steps)
                    THEN pc' = next /\ k' = 1 /\ result' = [result EXCEPT ![phase] = "True"]
                    ELSE pc' = pc /\ k' = k + 1 /\ result' = result
                 /\ UNCHANGED <<log, messages, raised>>
            ELSE /\ log' = log \o <<Err("Error executing command", <<r.ran[1].stderr>>)>> \o st.errs
                 /\ result' = [result EXCEPT ![phase] = "False"]
                 /\ messages' = ShowError(text, <<>>)
                 /\ pc' = next
                 /\ k' = 1
                 /\ raised' = raised

\* RunStep undoing the remote side when a command fails: the repository
\* created for this run is deleted again
RunStep_rolling_back(phase, steps, next, text) ==
    \E env_ok \in BOOLEAN :
      LET st == steps[k]
          r == run_command(world, st.cmd, env_ok)
      IN /\ cmds' = cmds \o Ran(phase, st.cmd, r)
         /\ IF r.raises # ""
            THEN /\ raised' = r.raises
                 /\ pc' = "done"
                 /\ world' = r.world
                 /\ UNCHANGED <<k, result, log, messages>>
            ELSE IF r.ok
            THEN /\ IF k = Len(steps)
                    THEN pc' = next /\ k' = 1 /\ result' = [result EXCEPT ![phase] = "True"]
                    ELSE pc' = pc /\ k' = k + 1 /\ result' = result
                 /\ world' = r.world
                 /\ UNCHANGED <<log, messages, raised>>
            ELSE /\ log' = log \o <<Err("Error executing command", <<r.ran[1].stderr>>)>> \o st.errs
                 /\ result' = [result EXCEPT ![phase] = "False"]
                 /\ messages' = ShowError(text, <<>>)
                 /\ world' = delete_repository(github, r.world, loc.repo_name, TRUE).world
                 /\ pc' = "done"
                 /\ k' = k
                 /\ raised' = raised

\* RunStep re-issuing a failed command instead of giving up
RunStep_retrying(phase, steps, next, text) ==
    \E env_ok \in BOOLEAN :
      LET st == steps[k]
          r == run_command(world, st.cmd, env_ok)
      IN /\ world' = r.world
         /\ cmds' = cmds \o Ran(phase, st.cmd, r)
         /\ IF r.raises # ""
            THEN /\ raised' = r.raises
                 /\ pc' = "done"
                 /\ UNCHANGED <<k, result, log, messages>>
            ELSE IF r.ok
            THEN /\ IF k = Len(steps)
                    THEN pc' = next /\ k' = 1 /\ result' = [result EXCEPT ![phase] = "True"]
                    ELSE pc' = pc /\ k' = k + 1 /\ result' = result
                 /\ UNCHANGED <<log, messages, raised>>
            ELSE /\ log' = log \o <<Err("Error executing command", <<r.ran[1].stderr>>)>> \o st.errs
                 /\ UNCHANGED <<pc, k, result, messages, raised>>

\* one run_command of a git phase: on success go on (to `next` after the last
\* command), on failure log, show `text` and return from create_project; an
\* exception raised by run_command escapes create_project
RunStep(phase, steps, next, text) ==
    \E env_ok \in BOOLEAN :
      LET st == steps[k]
          r == run_command(world, st.cmd, env_ok)
      IN /\ world' = r.world
         /\ cmds' = cmds \o Ran(phase, st.cmd, r)
         /\ IF r.raises # ""
            THEN /\ raised' = r.raises
                 /\ pc' = "done"
                 /\ UNCHANGED <<k, result, log, messages>>
            ELSE IF r.ok
            THEN /\ IF k = Len(steps)
                    THEN pc' = next /\ k' = 1 /\ result' = [result EXCEPT ![phase] = "True"]
                    ELSE pc' = pc /\ k' = k + 1 /\ result' = result
                 /\ UNCHANGED <<log, messages, raised>>
            ELSE /\ log' = log \o <<Err("Error executing command", <<r.ran[1].stderr>>)>> \o st.errs
                 /\ result' = [result EXCEPT ![phase] = "False"]
                 /\ messages' = ShowError(text, <<>>)
                 /\ pc' = "done"
                 /\ k' = k
                 /\ raised' = raised

\* create_project lines 116-119: git.setup_project(...), one command at a time
SetupStep ==
    /\ pc = "setup"
    /\ RunStep("setup",
               setup_project(loc.repo_url, MAIN, DEV, STAGING, loc.additional_branches),
               "gitignore", "Git setup failed!")
    /\ UNCHANGED <<form, token, username, is_available, returned, loc, rounds, requests>>

\* create_project line 122
WriteGitignore ==
    /\ pc = "gitignore"
    /\ \E net_ok \in BOOLEAN :
         LET content == get_gitignore_template(github, world, loc.selected_lang, net_ok)
         IN /\ world' = [world EXCEPT !.wt = create_gitignore(world.wt, loc.selected_lang,
                                                              content.ret)]
            /\ requests' = IF ".gitignore" \notin DOMAIN world.wt
                           THEN requests \o content.sent ELSE requests
    /\ pc' = "license"
    /\ UNCHANGED <<form, token, username, is_available, returned, k, loc, rounds, messages, log, cmds, result, raised>>

\* create_project line 123
WriteLicense ==
    /\ pc = "license"
    /\ \E net_ok \in BOOLEAN :
         LET content == get_license_content(github, world, loc.selected_license, net_ok)
         IN /\ world' = [world EXCEPT !.wt = create_license(world.wt, loc.selected_license,
                                                            loc.author, content.ret)]
            /\ requests' = IF "LICENSE" \notin DOMAIN world.wt
                           THEN requests \o content.sent ELSE requests
    /\ pc' = "readme"
    /\ UNCHANGED <<form, token, username, is_available, returned, k, loc, rounds, messages, log, cmds, result, raised>>

\* create_project lines 124-125
WriteReadme ==
    /\ pc = "readme"
    /\ world' = [world EXCEPT !.wt = create_readme(world.wt, loc.final_name, loc.author)]
    /\ pc' = "finalize"
    /\ UNCHANGED <<form, token, username, is_available, returned, k, loc, rounds, requests, messages, log, cmds, result, raised>>

\* create_project lines 127-129: git.finalize_project(...), one command at a time
FinalizeStep ==
    /\ pc = "finalize"
    /\ RunStep("finalize", finalize_project(loc.repo_url, DEV, loc.additional_branches),
               "report", "Failed to finalize Git setup!")
    /\ UNCHANGED <<form, token, username, is_available, returned, loc, rounds, requests>>

\* the branch lists of the success box, lines 131-137
pushed_branches(additional_branches) == <<DEV>> \o additional_branches
local_only_branches == <<MAIN, STAGING>>

\* create_project lines 131-138
Report ==
    /\ pc = "report"
    /\ messages' = (IF loc.repo_url # None
                    THEN Append(messages, Msg("showinfo", "Project pushed", loc.repo_url,
                                              pushed_branches(loc.additional_branches),
                                              local_only_branches))
                    ELSE messages)
                   \o <<Msg("showinfo", "Project initialized! Current branch: dev",
                            loc.project_path, <<>>, <<>>)>>
    /\ pc' = "done"
    /\ UNCHANGED <<form, token, username, is_available, returned, world, k, loc, rounds, requests, log, cmds, result, raised>>

Next ==
    \/ Validate
    \/ Negotiate
    \/ CreateRepository
    \/ SetupStep
    \/ WriteGitignore
    \/ WriteLicense
    \/ WriteReadme
    \/ FinalizeStep
    \/ Report

Spec == Init /\ [][Next]_vars

\* ------------------------------------------- GitHubManager called directly
\* A caller that builds a GitHubManager and calls its methods in any order
\* without looking at is_available, as the __main__ block of github_manager.py
\* does.  create_project is not running: pc stays "idle".
RepoNames == {<<"p">>, <<"d">>}

\* the form as ProjectCreatorApp.__init__ leaves it
UntouchedForm ==
    [project_name |-> <<>>, author |-> <<>>, destination_folder |-> <<"/">>,
     selected_language |-> <<"Select a language">>, selected_license |-> <<"Select a license">>,
     additional_branches |-> <<>>, use_github |-> FALSE, is_new_project |-> TRUE]

InitGitHubManager ==
    /\ form = UntouchedForm
    /\ token \in Tokens
    /\ username \in Usernames
    /\ is_available = GitHubManager(token, username).is_available
    /\ \E names \in GithubAccounts : world = NoDirectory(GithubHolding(names))
    /\ pc = "idle"
    /\ k = 1
    /\ loc = NoLocals
    /\ rounds = 0
    /\ requests = <<>>
    /\ messages = <<>>
    /\ log = <<>>
    /\ cmds = <<>>
    /\ result = [setup |-> "", finalize |-> ""]
    /\ raised = ""
    /\ returned = NotCalled

\* one method call, `call` being how it ends
Call(op, call) ==
    /\ pc = "idle"
    /\ raised = ""
    /\ Len(requests) < MaxRequests
    /\ requests' = requests \o call.sent
    /\ world' = call.world
    /\ raised' = call.raises
    /\ returned' = [op |-> op, ret |-> call.ret]
    /\ UNCHANGED <<form, token, username, is_available, pc, k, loc, rounds, messages, log,
                   cmds, result>>

CallGetLanguageTemplates ==
    \E net_ok \in BOOLEAN :
       Call("get_language_templates", get_language_templates(github, world, net_ok))

CallGetLicenseTemplates ==
    \E net_ok \in BOOLEAN :
       Call("get_license_templates", get_license_templates(github, world, net_ok))

CallGetLicenseContent ==
    \E net_ok \in BOOLEAN :
       Call("get_license_content", get_license_content(github, world, <<"mit">>, net_ok))

CallGetGitignoreTemplate ==
    \E net_ok \in BOOLEAN :
       Call("get_gitignore_template", get_gitignore_template(github, world, <<"Python">>, net_ok))

CallCheckRepositoryExists ==
    \E repo_name \in RepoNames, net_ok \in BOOLEAN :
       Call("check_repository_exists", check_repository_exists(github, world, repo_name, net_ok))

CallDeleteRepository ==
    \E repo_name \in RepoNames, net_ok \in BOOLEAN :
       Call("delete_repository", delete_repository(github, world, repo_name, net_ok))

CallCreateRepository ==
    \E repo_name \in RepoNames :
       \E outcome \in create_repository_outcomes(world, repo_name) :
          Call("create_repository", create_repository(github, world, repo_name, outcome))

NextGitHubManager ==
    \/ CallGetLanguageTemplates
    \/ CallGetLicenseTemplates
    \/ CallGetLicenseContent
    \/ CallGetGitignoreTemplate
    \/ CallCheckRepositoryExists
    \/ CallDeleteRepository
    \/ CallCreateRepository

SpecGitHubManager == InitGitHubManager /\ [][NextGitHubManager]_vars

\* ---------------------------------------------- GitManager called directly
\* A caller that builds a GitManager on an existing directory and calls
\* run_command, through the one-command methods, in any order and with any
\* branch name.  k - 1 is the number of calls made.
BranchArguments == {MAIN, DEV, <<"x", "\t", "y">>, <<"z", "\"">>}

Commands ==
    {initialize_repo, add_files, fetch_remote, set_remote(OtherUrl),
     commit_changes("Initial empty commit", TRUE),
     commit_changes("Initial project setup on dev", FALSE)}
    \cup {checkout(b) : b \in BranchArguments}
    \cup {checkout_b(b) : b \in BranchArguments}
    \cup {merge(b) : b \in BranchArguments}
    \cup {push_branch(b, force) : b \in BranchArguments, force \in BOOLEAN}

InitGitManager ==
    /\ form = UntouchedForm
    /\ token = None
    /\ username = None
    /\ is_available = GitHubManager(token, username).is_available
    /\ world \in {d \in Directories(GithubHolding({})) : d.exists}
    /\ pc = "idle"
    /\ k = 1
    /\ loc = NoLocals
    /\ rounds = 0
    /\ requests = <<>>
    /\ messages = <<>>
    /\ log = <<>>
    /\ cmds = <<>>
    /\ result = [setup |-> "", finalize |-> ""]
    /\ raised = ""
    /\ returned = NotCalled

CallRunCommand ==
    /\ pc = "idle"
    /\ raised = ""
    /\ k <= MaxCalls
    /\ \E c \in Commands, env_ok \in BOOLEAN :
         LET r == run_command(world, c, env_ok)
         IN /\ world' = r.world
            /\ cmds' = cmds \o Ran("", c, r)
            /\ raised' = r.raises
            /\ returned' = [op |-> "run_command", ret |-> IF r.raises = "" THEN PyBool(r.ok) ELSE PyNone]
            /\ log' = IF r.raises = "" /\ ~r.ok
                      THEN Append(log, Err("Error executing command", <<r.ran[1].stderr>>))
                      ELSE log
    /\ k' = k + 1
    /\ UNCHANGED <<form, token, username, is_available, pc, loc, rounds, requests, messages, result>>

NextGitManager == CallRunCommand

SpecGitManager == InitGitManager /\ [][NextGitManager]_vars

\* --------------------------------- create_project, every prompt answered
\* create_project on a form that passes validation, in a run where every
\* dialog of the repository-name loop is answered and every existence check
\* returns, so that an iteration that has begun is completed.
ValidBranchLists == {<<>>, << <<"x">> >>, << <<"x">>, <<"y", " ">> >>}

ValidForms ==
    { f \in Forms : /\ f.project_name = <<" ", "p">>
                    /\ f.author = <<"a">>
                    /\ f.destination_folder = <<"/", "d">>
                    /\ f.selected_language = <<"Python">>
                    /\ f.additional_branches \in ValidBranchLists }

InitAnswered ==
    /\ Init
    /\ form \in ValidForms

SpecAnswered == InitAnswered /\ [][Next]_vars /\ WF_vars(Negotiate)

\* ------------------------------------------------------------- vocabulary
FirstInitFresh == Len(cmds) >= 1 /\ cmds[1].stdout = "Initialized empty Git repository"

\* no command of the run was stopped by the environment
NoEnvFailure == \A i \in 1..Len(cmds) : cmds[i].stderr # EnvStderr

Reserved == {MAIN, DEV, STAGING, MASTER}

\* a list of distinct, valid feature-branch names
DistinctValid(names) ==
    /\ \A i \in 1..Len(names) : /\ names[i] # <<>>
                                 /\ Range(names[i]) \cap Whitespace = {}
                                 /\ names[i] \notin Reserved
    /\ \A i, j \in 1..Len(names) : names[i] = names[j] => i = j

RemoteOps == {"remote add", "push", "fetch"}

Issued(ops) == {i \in 1..Len(cmds) : cmds[i].cmd.op \in ops}

\* branches a successful `git push origin ...` of this run carried
PushedThisRun ==
    UNION {Range(cmds[i].cmd.args) : i \in {j \in Issued({"push"}) : cmds[j].ok}}

\* files of the working directory that FileCreator wrote in this run
WrittenFiles == {f \in DOMAIN world.wt : world.wt[f] # <<"old">>}

\* main exists although this run did not create it
MainPreexisted ==
    /\ MAIN \in DOMAIN world.refs
    /\ \A i \in 1..Len(cmds) : ~(cmds[i].cmd = checkout_b(MAIN) /\ cmds[i].ok)

Tracked(b) == DOMAIN TipTree(world, b)

\* ------------------------------------------------------------------ claims

\* C1: with distinct valid feature names, no remote URL and a fresh directory,
\* setup then finalize (no command stopped by the environment) ends with exactly
\* the local branches main, dev, staging and the feature branches, dev active.
C1_Claim ==
    (/\ pc = "done"
     /\ FirstInitFresh
     /\ loc.repo_url = None
     /\ DistinctValid(loc.additional_branches)
     /\ NoEnvFailure)
    => /\ result.finalize = "True"
       /\ DOMAIN world.refs = {MAIN, DEV, STAGING} \cup Range(loc.additional_branches)
       /\ world.head = DEV

\* C2: without a remote URL no remote command (remote add, push, fetch) is
\* issued in setup or finalize, and the missing binding does not fail setup.
C2_Claim ==
    loc.repo_url = None
    => /\ Issued(RemoteOps) = {}
       /\ (FirstInitFresh /\ NoEnvFailure /\ DistinctValid(loc.additional_branches)
           => result.setup # "False")

\* C3: after a workflow whose two phases both succeeded, main and staging track
\* no file, and dev and every feature branch track .gitignore, LICENSE and
\* README.md, with or without a remote URL.
C3_Claim ==
    result.finalize = "True"
    => /\ Tracked(MAIN) = {} /\ Tracked(STAGING) = {}
       /\ \A b \in {DEV} \cup Range(loc.additional_branches) :
             b \in DOMAIN world.refs /\ Boilerplate \subseteq Tracked(b)

\* C3 restricted to runs with a remote URL in a repository this run
\* initialized (what the code does achieve)
C3_WithRemote == (loc.repo_url # None /\ FirstInitFresh) => C3_Claim

\* C4: once setup has failed, finalize_project is never called, FileCreator
\* writes no file and `git add .` is never issued.
C4_SetupFailureStops ==
    result.setup = "False"
    => /\ pc = "done"
       /\ result.finalize = ""
       /\ \A i \in 1..Len(cmds) : cmds[i].phase = "setup" /\ cmds[i].cmd.op # "add"
       /\ WrittenFiles = {}
       /\ \A i \in 1..Len(requests) :
             requests[i].op \notin {"get_gitignore_template", "get_license_content"}

C4_Witness ==
    /\ result.setup = "False"
    /\ cmds[Len(cmds)].cmd.op = "checkout -b"
    /\ cmds[Len(cmds)].stderr = "fatal: a branch named already exists"
    /\ Len(cmds) > 2

\* C5 (as stated): when main already exists (and the environment stops no
\* command), setup fails at `git checkout -b dev`, every step before it having
\* succeeded.
C5_Claim ==
    (result.setup # "" /\ MainPreexisted /\ NoEnvFailure)
    => /\ result.setup = "False"
       /\ cmds[Len(cmds)].cmd = checkout_b(DEV)
       /\ \A i \in 1..(Len(cmds) - 1) : cmds[i].ok

\* C5 (amended): when main already exists, setup fails at `git checkout -b main`
\* (the second command) unless `git init` itself failed; nothing is issued after
\* the failed command, so `git checkout -b dev` is never reached.
C5_FailsAtCreateMain ==
    (result.setup # "" /\ MainPreexisted)
    => /\ result.setup = "False"
       /\ Len(cmds) <= 2
       /\ cmds[1].cmd = initialize_repo
       /\ (Len(cmds) = 1 => ~cmds[1].ok)
       /\ (Len(cmds) = 2 => /\ cmds[1].ok
                            /\ cmds[2].cmd = checkout_b(MAIN)
                            /\ ~cmds[2].ok
                            /\ cmds[2].stderr = "fatal: a branch named already exists")

C5_Witness ==
    /\ result.setup = "False"
    /\ MainPreexisted
    /\ Len(cmds) = 2
    /\ cmds[2].cmd = checkout_b(MAIN)

\* C6: GitHub enabled, the name exists, the user declines the overwrite and
\* gives no replacement name: repo_url stays None, nothing is raised and neither
\* delete_repository nor create_repository is called.
SetupSkipped == \E i \in 1..Len(messages) : messages[i].text = "GitHub setup skipped"

C6_Claim ==
    SetupSkipped
    => /\ loc.repo_url = None
       /\ raised = ""
       /\ \A i \in 1..Len(requests) :
             requests[i].op \notin {"delete_repository", "create_repository"}

\* C7: the success box names as pushed exactly the branches a successful push
\* of this run carried, and as local-only exactly the branches never pushed.
C7_Claim ==
    \A i \in 1..Len(messages) :
       messages[i].text = "Project pushed"
       => /\ Range(messages[i].pushed) = PushedThisRun
          /\ Range(messages[i].local_only) = (DOMAIN world.refs) \ PushedThisRun

\* C8: when a git phase fails, the error shown to the user names the operation
\* that failed and carries the stderr text of the failed command.
C8_Claim ==
    (result.setup = "False" \/ result.finalize = "False")
    => /\ messages # <<>>
       /\ messages[Len(messages)].kind = "showerror"
       /\ cmds[Len(cmds)].stderr \in Range(messages[Len(messages)].detail)
       /\ cmds[Len(cmds)].cmd.op \in Range(messages[Len(messages)].detail)

\* C9: a missing required input, a feature-branch name containing whitespace, or
\* a missing directory in existing-project mode makes create_project show an
\* error and return with no git command run, no request sent, no file written.
RequiredMissing ==
    \/ strip(form.project_name) = <<>>
    \/ strip(form.author) = <<>>
    \/ strip(form.destination_folder) = <<>>
    \/ form.selected_language = <<"Select a language">>

NameWith(chars) ==
    \E i \in 1..Len(form.additional_branches) :
       Range(strip(form.additional_branches[i])) \cap chars # {}

Untouched ==
    /\ cmds = <<>>
    /\ requests = <<>>
    /\ WrittenFiles = {}
    /\ (pc = "done" => messages # <<>> /\ messages[Len(messages)].kind = "showerror")

C9_Claim ==
    (RequiredMissing \/ NameWith(Whitespace) \/ (~form.is_new_project /\ ~world.exists))
    => Untouched

\* C9 with "whitespace" read as the space character only (what the code checks)
C9_SpacesOnly ==
    (RequiredMissing \/ NameWith({" "}) \/ (~form.is_new_project /\ ~world.exists))
    => Untouched

\* C10: finalize_project starts only after setup_project returned True; the
\* three boilerplate files are written only between the two phases, with dev
\* checked out, and are all present when finalize issues `git add .`.
C10_FilesBetweenPhases ==
    /\ (pc \in {"gitignore", "license", "readme", "finalize", "report"}
        \/ result.finalize # "" \/ \E i \in 1..Len(cmds) : cmds[i].phase = "finalize")
       => result.setup = "True"
    /\ pc \in {"start", "negotiate", "create_repo", "setup"} => WrittenFiles = {}
    /\ pc \in {"gitignore", "license", "readme"}
       => world.head = DEV /\ \A i \in 1..Len(cmds) : cmds[i].phase = "setup"
    /\ (pc = "finalize" /\ k = 1)
       => /\ world.head = DEV
          /\ Boilerplate \subseteq DOMAIN world.wt
          /\ Issued({"add"}) = {}
    /\ \A i \in Issued({"add"}) : cmds[i].ok => Boilerplate \subseteq DOMAIN world.index
                                                 \/ Len(cmds) > i

C10_Witness ==
    /\ pc = "finalize" /\ k = 2
    /\ cmds[Len(cmds)].cmd = add_files /\ cmds[Len(cmds)].ok
    /\ WrittenFiles = Boilerplate

\* C11: when the token or the username is missing, every GitHubManager method
\* returns its fixed unavailable result (empty list for the two template lists;
\* None for license content, gitignore content and create_repository; False for
\* check_repository_exists and delete_repository), raises nothing and sends no
\* HTTP request.
CredentialMissing == token = None \/ username = None

UnavailableResult(op) ==
    CASE op \in {"get_language_templates", "get_license_templates"} -> PyList(<<>>)
      [] op \in {"get_license_content", "get_gitignore_template", "create_repository"} -> PyNone
      [] op \in {"check_repository_exists", "delete_repository"} -> PyBool(FALSE)

C11_UnavailableResults ==
    CredentialMissing
    => /\ requests = <<>>
       /\ raised = ""
       /\ returned # NotCalled => returned.ret = UnavailableResult(returned.op)

C11_Witness ==
    /\ token # None /\ username = None
    /\ returned.op = "delete_repository"
    /\ RepoUrl(<<"p">>) \in DOMAIN world.remotes

\* C14: create_repository returns the repository URL on success and None on
\* every kind of failure (missing credentials, an HTTP error status, a request
\* that itself fails); it never raises.
C14_Claim ==
    returned.op = "create_repository"
    => /\ raised = ""
       /\ \/ returned.ret = PyNone
          \/ /\ returned.ret.type = "str"
             /\ returned.ret.v \in DOMAIN world.remotes

\* C12: create_gitignore, create_license and create_readme never overwrite an
\* existing file (a file present before the call has the same content after
\* it), so a second call changes nothing, whatever the provider returns and
\* whatever name or author is passed.
FetchedContents == {PyNone, PyStr(<<"template">>)}

Keeps(before, after) == \A f \in DOMAIN before : f \in DOMAIN after /\ after[f] = before[f]

C12_WriteIfAbsent ==
    \A c1, c2 \in FetchedContents :
       LET wt == world.wt
           n1 == <<"p">>
           n2 == <<"q">>
           ignored == create_gitignore(wt, n1, c1)
           licensed == create_license(wt, n1, loc.author, c1)
           readme == create_readme(wt, n1, loc.author)
       IN /\ Keeps(wt, ignored) /\ Keeps(wt, licensed) /\ Keeps(wt, readme)
          /\ create_gitignore(ignored, n2, c2) = ignored
          /\ create_license(licensed, n2, loc.author, c2) = licensed
          /\ create_readme(readme, n2, loc.author) = readme

\* create_readme has been called on a directory that already held README.md
C12_Witness ==
    /\ pc = "finalize"
    /\ Boilerplate \subseteq DOMAIN world.wt
    /\ world.wt["README.md"] = <<"old">>
    /\ WrittenFiles = {".gitignore", "LICENSE"}

\* C13: run_command runs exactly one process per call (no retry) and always
\* returns a boolean, True if and only if the process exited with status zero:
\* no call ends in an exception, every call made so far has exactly one process
\* on record, and the value returned is True exactly when the status of that
\* process is zero.
C13_Claim ==
    returned.op = "run_command"
    => /\ raised = ""
       /\ returned.ret \in {PyBool(TRUE), PyBool(FALSE)}
       /\ Len(cmds) = k - 1
       /\ returned.ret = PyBool(TRUE) <=> cmds[Len(cmds)].returncode = 0

\* the commands of one phase, in the order issued
PhaseCmds(phase) ==
    LET sel == SelectSeq(cmds, LAMBDA c : c.phase = phase)
    IN [i \in 1..Len(sel) |-> sel[i].cmd]

\* setup_project's own commands before it calls setup_branches
SetupPrefix == IF loc.repo_url # None THEN 6 ELSE 3

\* the commands setup_branches issued
BranchSetupCmds == SubSeq(PhaseCmds("setup"), SetupPrefix + 1, Len(PhaseCmds("setup")))

Switch(b) == Cmd("checkout", <<b>>, "", "")
Create(b) == Cmd("checkout -b", <<b>>, "", "")
Push(b) == Cmd("push", <<b>>, "", "")
ForcePush(b) == Cmd("push", <<b>>, "--force", "")
Merge(b) == Cmd("merge", <<b>>, "", "")

RECURSIVE Flatten(_)
Flatten(ss) == IF ss = <<>> THEN <<>> ELSE Head(ss) \o Flatten(Tail(ss))

\* C15: when every command of setup succeeded, setup_branches issued exactly:
\* checkout main; create dev; checkout main; create staging; empty commit on
\* staging; push staging (a remote being bound); per feature branch, in the
\* order given, checkout dev and create that branch; finally checkout dev.  On
\* return dev and staging are forked from main, every feature branch exists and
\* is forked from dev, and dev is active.
C15_Claim ==
    result.setup = "True"
    => /\ BranchSetupCmds =
             << Switch(MAIN), Create(DEV), Switch(MAIN), Create(STAGING),
                Cmd("commit", <<>>, "--allow-empty", "Initial empty commit on staging") >>
             \o (IF world.origin # None THEN <<Push(STAGING)>> ELSE <<>>)
             \o Flatten([i \in 1..Len(loc.additional_branches) |->
                            <<Switch(DEV), Create(loc.additional_branches[i])>>])
             \o << Switch(DEV) >>
       /\ pc = "gitignore"
          => /\ world.head = DEV
             /\ world.refs[DEV] = world.refs[MAIN]
             /\ IsPrefix(world.refs[MAIN], world.refs[STAGING])
             /\ \A i \in 1..Len(loc.additional_branches) :
                   /\ loc.additional_branches[i] \in DOMAIN world.refs
                   /\ world.refs[loc.additional_branches[i]] = world.refs[DEV]

\* C15 for feature names free of whitespace
C15_WhitespaceFree ==
    (\A i \in 1..Len(loc.additional_branches) :
        Range(loc.additional_branches[i]) \cap Whitespace = {})
    => C15_Claim

\* the operations the two phases ever ask git for
WorkflowOps == {"init", "checkout", "checkout -b", "commit", "remote add", "fetch", "push",
                "add", "merge"}

\* C16: in setup_project and in finalize_project a failed command is the last
\* command issued: the phase returns failure and create_project returns; the
\* command is not re-issued, no command undoing an earlier step exists among
\* those issued, and every branch created and every push made by a command
\* that succeeded is still there.
C16_FailureIsFinal ==
    /\ \A i \in 1..Len(cmds) :
          /\ cmds[i].cmd.op \in WorkflowOps
          /\ ~cmds[i].ok => /\ i = Len(cmds)
                            /\ result[cmds[i].phase] = "False"
                            /\ pc = "done"
          /\ (cmds[i].ok /\ cmds[i].cmd.op = "checkout -b")
             => cmds[i].cmd.args[1] \in (DOMAIN world.refs) \cup {world.head}
          /\ (cmds[i].ok /\ cmds[i].cmd.op = "push")
             => /\ world.origin \in DOMAIN world.remotes
                /\ Range(cmds[i].cmd.args) \subseteq DOMAIN world.remotes[world.origin]
    /\ \A ph \in {"setup", "finalize"} :
          result[ph] = "False" => cmds # <<>> /\ ~cmds[Len(cmds)].ok /\ cmds[Len(cmds)].phase = ph

\* finalize failed at a push, after branches were created and dev was pushed
C16_Witness ==
    /\ result.finalize = "False"
    /\ cmds[Len(cmds)].cmd.op = "push"
    /\ Len(loc.additional_branches) = 2
    /\ DEV \in PushedThisRun
    /\ \E i \in 1..Len(cmds) : cmds[i].phase = "finalize" /\ cmds[i].cmd.op = "merge" /\ cmds[i].ok

\* the state in which setup_project is about to issue its force-push
AtForcePush == pc = "setup" /\ k = 5 /\ loc.repo_url # None

BindAndSeedInOrder ==
    /\ loc.repo_url = None
       => \A i \in 1..Len(cmds) : /\ cmds[i].cmd.op \notin {"remote add", "fetch"}
                                  /\ cmds[i].cmd.opt # "--force"
    /\ loc.repo_url # None
       => /\ Len(cmds) >= 4 => cmds[4].cmd = Cmd("remote add", <<loc.repo_url>>, "", "")
          /\ Len(cmds) >= 5 => cmds[5].cmd = ForcePush(MAIN)
          /\ Len(cmds) >= 6 => cmds[6].cmd = Cmd("fetch", <<>>, "", "")
    /\ \A i \in 1..Len(cmds) :
          /\ cmds[i].cmd.opt = "--force" => i = 5 /\ cmds[i].phase = "setup"
          /\ cmds[i].cmd.op \in {"remote add", "fetch"} => i \in {4, 6} /\ cmds[i].phase = "setup"

\* C17: setup_project runs bind-and-seed only if a remote URL is supplied, as
\* add-remote, force-push of main, fetch, in that order; when the force-push is
\* issued main is the active branch and tracks no file; no other push of the
\* workflow uses force.
C17_Claim ==
    /\ BindAndSeedInOrder
    /\ AtForcePush => world.head = MAIN /\ HeadTree(world) = EmptyTree

\* the propagation sequence of a finalize that runs to its end, with a remote
Propagation ==
    << Cmd("add", <<>>, "", ""),
       Cmd("commit", <<>>, "", "Initial project setup on dev"),
       Push(DEV) >>
    \o Flatten([i \in 1..Len(loc.additional_branches) |->
                   << Switch(loc.additional_branches[i]), Merge(DEV),
                      Push(loc.additional_branches[i]) >>])
    \o << Switch(DEV) >>

\* C18: with a remote URL and every command succeeding, finalize_project
\* issues: add, the boilerplate commit, push dev; then per feature branch, in
\* list order, checkout, merge dev, push; finally checkout dev.  Each feature
\* branch is pushed exactly once in the whole run, and dev is active at the end.
C18_PropagationOrder ==
    (result.finalize = "True" /\ loc.repo_url # None)
    => /\ PhaseCmds("finalize") = Propagation
       /\ \A i \in 1..Len(loc.additional_branches) :
             Cardinality({j \in 1..Len(cmds) :
                            cmds[j].cmd = Push(loc.additional_branches[i])}) = 1
       /\ world.head = DEV

C18_Witness ==
    /\ result.finalize = "True"
    /\ loc.repo_url # None
    /\ Len(loc.additional_branches) = 2
    /\ pc = "report"

\* the last command issued, and the branch it failed on
LastCmd == cmds[Len(cmds)]

PropagationFailed ==
    /\ result.finalize = "False"
    /\ LastCmd.cmd.op \in {"push", "merge"}

\* C19: when a push or a merge of finalize_project fails, the commands of
\* finalize issued are a prefix of the propagation sequence ending with the
\* failed one (nothing after it), every branch pushed before is still on the
\* remote as pushed, and the last error line logged names the branch that
\* failed (the branch pushed, or the feature branch being merged into).
C19_PropagationStops ==
    PropagationFailed
    => /\ Len(PhaseCmds("finalize")) <= Len(Propagation)
       /\ PhaseCmds("finalize") = SubSeq(Propagation, 1, Len(PhaseCmds("finalize")))
       /\ \A i \in 1..(Len(cmds) - 1) : cmds[i].ok
       /\ \A b \in PushedThisRun :
             /\ b \in DOMAIN world.remotes[world.origin]
             /\ world.remotes[world.origin][b] = world.refs[b]
       /\ log # <<>>
       /\ log[Len(log)].arg = (IF LastCmd.cmd.op = "push" THEN LastCmd.cmd.args[1]
                               ELSE world.head)
       /\ LastCmd.cmd.op = "merge" => world.head \in Range(loc.additional_branches)

\* the push of the second feature branch failed after the first was pushed
C19_Witness ==
    /\ PropagationFailed
    /\ Len(loc.additional_branches) = 2
    /\ LastCmd.cmd = Push(loc.additional_branches[2])
    /\ loc.additional_branches[1] \in PushedThisRun
    /\ loc.additional_branches[1] # loc.additional_branches[2]

EmptyCommits(history) == \A i \in 1..Len(history) : history[i].tree = EmptyTree

\* C20 (as stated): after the full workflow main and staging each have exactly
\* one commit, an empty one; while setup creates the feature branches dev has
\* no commits, so each feature branch starts with none.
C20_Claim ==
    /\ result.finalize = "True"
       => /\ Len(world.refs[MAIN]) = 1 /\ EmptyCommits(world.refs[MAIN])
          /\ Len(world.refs[STAGING]) = 1 /\ EmptyCommits(world.refs[STAGING])
    /\ (pc = "setup" /\ DEV \in DOMAIN world.refs) => world.refs[DEV] = <<>>
    /\ pc = "gitignore"
       => \A i \in 1..Len(loc.additional_branches) :
             loc.additional_branches[i] \in DOMAIN world.refs
             => world.refs[loc.additional_branches[i]] = <<>>

\* C20 (amended): in a repository this run initialized, main has exactly one
\* commit after the full workflow, the empty "Initial empty commit"; staging has
\* exactly two, that commit and its own empty commit; while setup creates the
\* feature branches dev holds exactly main's one empty commit, and so does
\* every branch setup has created from it.
C20_ForkedFromMain ==
    FirstInitFresh
    => /\ result.finalize = "True"
          => /\ Len(world.refs[MAIN]) = 1 /\ EmptyCommits(world.refs[MAIN])
             /\ world.refs[MAIN][1].msg = "Initial empty commit"
             /\ Len(world.refs[STAGING]) = 2 /\ EmptyCommits(world.refs[STAGING])
             /\ world.refs[STAGING][1] = world.refs[MAIN][1]
             /\ world.refs[STAGING][2].msg = "Initial empty commit on staging"
       /\ (pc \in {"setup", "gitignore"} /\ DEV \in DOMAIN world.refs)
          => /\ world.refs[DEV] = world.refs[MAIN]
             /\ Len(world.refs[DEV]) = 1
             /\ \A b \in (DOMAIN world.refs) \ {MAIN, DEV, STAGING} :
                   world.refs[b] = world.refs[DEV]

C20_Witness ==
    /\ FirstInitFresh
    /\ result.finalize = "True"
    /\ Len(loc.additional_branches) = 2
    /\ loc.additional_branches[1] # loc.additional_branches[2]
    /\ loc.additional_branches[2] \in DOMAIN world.refs

\* C21: the feature-branch list create_project passes to setup_project and
\* finalize_project holds no empty-after-trim name and no name twice, so no
\* feature-branch creation of setup fails with "branch already exists" on a
\* name the list carries twice.
SuppliedTwice(name) ==
    Cardinality({i \in 1..Len(loc.additional_branches) : loc.additional_branches[i] = name}) >= 2

C21_Claim ==
    /\ \A i \in 1..Len(loc.additional_branches) : strip(loc.additional_branches[i]) # <<>>
    /\ \A name \in Range(loc.additional_branches) : ~SuppliedTwice(name)
    /\ \A i \in 1..Len(cmds) :
          (/\ cmds[i].phase = "setup"
           /\ cmds[i].cmd.op = "checkout -b"
           /\ cmds[i].stderr = "fatal: a branch named already exists")
          => \A name \in Range(cmds[i].cmd.args) : ~SuppliedTwice(name)

\* the part of C21 the code does ensure: no name of the list is empty after trimming
C21_NoEmptyNames ==
    \A i \in 1..Len(loc.additional_branches) :
       /\ loc.additional_branches[i] # <<>>
       /\ strip(loc.additional_branches[i]) = loc.additional_branches[i]

\* the requests create_project has sent that ask for a deletion
Deletions == {i \in 1..Len(requests) : requests[i].op = "delete_repository"}

\* the requests this step sends
NewRequests == {i \in (Len(requests) + 1)..Len(requests') : TRUE}

DeletionConfirmed ==
    /\ Cardinality(Deletions) <= 1
    /\ (~form.use_github \/ CredentialMissing) => Deletions = {}
    /\ \A i \in Deletions :
          /\ i > 1
          /\ requests[i - 1] = Request("GET", "check_repository_exists", requests[i].name)
          /\ loc.overwrite = "True"
          /\ loc.repo_name = requests[i].name

DeletesExisting ==
    \A i \in NewRequests :
       requests'[i].op = "delete_repository"
       => /\ pc = "negotiate"
          /\ RepoUrl(requests'[i].name) \in DOMAIN world.remotes

\* C22: in create_project delete_repository is called only for the name whose
\* check_repository_exists request came immediately before and was answered
\* true (the repository was there), the user having answered yes to the
\* overwrite prompt; at most one deletion is requested per run, and none when
\* GitHub is disabled or a credential is missing.
C22_DeleteOnlyConfirmed == []DeletionConfirmed /\ [][DeletesExisting]_vars

\* a repository that existed has been deleted
C22_Witness ==
    /\ pc = "create_repo"
    /\ Deletions # {}
    /\ loc.repo_name = <<"p">>
    /\ RepoUrl(<<"p">>) \notin DOMAIN world.remotes
    /\ Cardinality(DOMAIN world.remotes) = 1

\* a git phase of this run has failed
PhaseFailed == result.setup = "False" \/ result.finalize = "False"

Creations == {i \in 1..Len(requests) : requests[i].op = "create_repository"}

RemoteLeftAsIs ==
    (loc.repo_url # None /\ PhaseFailed)
    => /\ pc = "done"
       /\ loc.repo_url \in DOMAIN world.remotes
       /\ Cardinality(Creations) = 1
       /\ \A i \in Creations : \A j \in (i + 1)..Len(requests) :
             requests[j].op \in {"get_gitignore_template", "get_license_content"}
       /\ result.setup = "False" => requests[Len(requests)].op = "create_repository"

NothingAfterFailure ==
    PhaseFailed => /\ requests' = requests
                   /\ world'.remotes = world.remotes

\* C23: once create_repository has returned a URL and setup_project or
\* finalize_project has failed, create_project has returned: no request is
\* sent after the failure, the repository created for the run is still on the
\* provider, and the only requests after its creation are the two template
\* fetches of a run whose setup succeeded (no deletion, no second creation).
C23_NoRemoteRollback == []RemoteLeftAsIs /\ [][NothingAfterFailure]_vars

\* finalize failed after the old repository was deleted and a new one created
C23_Witness ==
    /\ loc.repo_url # None
    /\ result.finalize = "False"
    /\ Deletions # {}
    /\ Cardinality(DOMAIN world.remotes) = 2

\* the commands finalize_project has issued, with their results
FinalizeRan == SelectSeq(cmds, LAMBDA c : c.phase = "finalize")

\* finalize has switched to a feature branch
FeatureCheckedOut ==
    \E i \in 1..Len(FinalizeRan) :
       /\ FinalizeRan[i].cmd.op = "checkout"
       /\ FinalizeRan[i].ok
       /\ FinalizeRan[i].cmd # Switch(DEV)

ChecksSent == {i \in 1..Len(requests) : requests[i].op = "check_repository_exists"}

SkippedBox == Msg("showwarning", "GitHub setup skipped", <<>>, <<>>, <<>>)

\* create_project has entered the repository-name loop
LoopEntered == form.use_github /\ is_available /\ loc # NoLocals

\* one check per iteration: `rounds` counts the iterations that ended in `continue`
IterationCount ==
    /\ pc = "negotiate" => LoopEntered /\ Cardinality(ChecksSent) = rounds
    /\ pc \notin {"start", "negotiate"}
       => Cardinality(ChecksSent) = (IF LoopEntered THEN rounds + 1 ELSE 0)

\* the loop has no limit of its own: while a name that exists can be chosen,
\* one more iteration can follow (up to the bound of the model)
LoopUnbounded ==
    (/\ pc = "negotiate"
     /\ rounds + 1 < MaxRounds
     /\ \/ RepoUrl(loc.repo_name) \in DOMAIN world.remotes
        \/ RepoUrl(loc.local_name) \in DOMAIN world.remotes)
    => ENABLED (Negotiate /\ pc' = "negotiate")

\* one iteration of the loop; absent: what must hold of the checked name when
\* the loop ends with neither an overwrite nor a missing replacement name
Iteration(absent(_)) ==
    pc = "negotiate"
    => LET asked == requests'[Len(requests) + 1]
           existed == RepoUrl(asked.name) \in DOMAIN world.remotes
       IN /\ Len(requests') > Len(requests)
          /\ asked = Request("GET", "check_repository_exists", asked.name)
          /\ asked.name \in {loc.repo_name, loc.local_name}
          /\ Cardinality({i \in NewRequests : requests'[i].op = "check_repository_exists"}) = 1
          /\ IF pc' = "negotiate"
             THEN /\ existed
                  /\ loc'.overwrite = "False"
                  /\ loc'.repo_name # <<>>
                  /\ rounds' = rounds + 1
                  /\ Len(requests') = Len(requests) + 1
                  /\ messages' = messages
             ELSE /\ pc' = "create_repo"
                  /\ rounds' = rounds
                  /\ \/ /\ absent(asked.name)
                        /\ Len(requests') = Len(requests) + 1
                        /\ messages' = messages
                        /\ loc'.overwrite = loc.overwrite
                     \/ /\ existed
                        /\ loc'.overwrite = "True"
                        /\ Len(requests') = Len(requests) + 2
                        /\ requests'[Len(requests) + 2] =
                              Request("DELETE", "delete_repository", asked.name)
                        /\ messages' = messages
                     \/ /\ existed
                        /\ loc'.overwrite = "False"
                        /\ Len(requests') = Len(requests) + 1
                        /\ messages' = Append(messages, SkippedBox)

NotOnProvider(name) == RepoUrl(name) \notin DOMAIN world.remotes
NotReported(name) == TRUE

SetupRan == SelectSeq(cmds, LAMBDA c : c.phase = "setup")

\* the command counts of the two phases for this run's URL and feature list
SetupTotal == (IF loc.repo_url # None THEN 13 ELSE 10) + 2 * Len(loc.additional_branches)
FinalizeTotal == IF loc.repo_url # None THEN 4 + 3 * Len(loc.additional_branches) ELSE 2

Succeeded(ran) == {i \in 1..Len(ran) : ran[i].ok}

\* C26 (as stated): a fully successful setup issues exactly 10 + 2n commands
\* without a remote URL and 13 + 2n with one, a fully successful finalize 2
\* without and 4 + 3n with one, and a failing run issues strictly fewer.
C26_Claim ==
    /\ result.setup = "True" => Len(SetupRan) = SetupTotal
    /\ result.setup = "False" => Len(SetupRan) < SetupTotal
    /\ result.finalize = "True" => Len(FinalizeRan) = FinalizeTotal
    /\ result.finalize = "False" => Len(FinalizeRan) < FinalizeTotal

\* a phase that is running has issued k - 1 commands, all successful, and has
\* at least one left; one that returned True issued its full count, all
\* successful; one that returned False issued at most its full count, the last
\* command being the only one that failed
PhaseCount(ran, total, phase) ==
    /\ pc = phase
       => /\ result[phase] = ""
          /\ Len(ran) = k - 1
          /\ k <= total
          /\ Succeeded(ran) = 1..Len(ran)
    /\ result[phase] = "True"
       => Len(ran) = total /\ Succeeded(ran) = 1..total
    /\ result[phase] = "False"
       => /\ pc = "done"
          /\ Len(ran) \in 1..total
          /\ Succeeded(ran) = 1..(Len(ran) - 1)

CommandCounts ==
    /\ PhaseCount(SetupRan, SetupTotal, "setup")
    /\ PhaseCount(FinalizeRan, FinalizeTotal, "finalize")

\* every step of a phase issues exactly one command, then either goes on to
\* the next command or returns
OneCommandPerStep ==
    pc \in {"setup", "finalize"}
    => /\ Len(cmds') = Len(cmds) + 1
       /\ cmds'[Len(cmds')].phase = pc
       /\ IF pc' = pc THEN k' = k + 1 /\ result' = result
          ELSE result'[pc] \in {"True", "False"}

\* C26 (amended): setup_project and finalize_project terminate, provided each
\* command returns: every step issues one command and the number issued never
\* exceeds 10 + 2n (setup without a remote URL), 13 + 2n (with one), 2
\* (finalize without) or 4 + 3n (with one); a fully successful phase issues
\* exactly that many, and a failing one issues at most that many, the failed
\* command being its last, so strictly fewer of its commands succeed.
C26_BoundedCommands == []CommandCounts /\ [][OneCommandPerStep]_vars

\* both phases succeeded with a remote URL and two feature branches
C26_Witness ==
    /\ result.finalize = "True"
    /\ loc.repo_url # None
    /\ Len(loc.additional_branches) = 2
    /\ Len(SetupRan) = 17
    /\ Len(FinalizeRan) = 10

====
